---- MODULE Spec2Model ----
(***************************************************************************)
(* Model of Sources/TSCclibc/process.c: the glibc-gated wrapper and probe  *)
(* for posix_spawn_file_actions_addchdir_np, and SPM_fork_exec_chdir, the  *)
(* fork / chdir / dup2 / close / execve fallback.  A process is a          *)
(* descriptor table (descriptor number -> open file), a working directory  *)
(* and a program position; a pipe is a bounded FIFO of written items.      *)
(***************************************************************************)
EXTENDS Integers, Sequences, FiniteSets, TLC

\* ---------------------------------------------------------------- bounds
MaxLowEnds == 1   \* pipe ends that may be numbered 0, 1 or 2 in a layout
PipeCap == 1      \* items a pipe holds before a writer blocks
MaxWrites == 2    \* writes the executed program makes before it exits

\* ------------------------------------------------------- program constants
ENOSYS == 38
EXIT_FAILURE == 1
STDIN == 0
STDOUT == 1
STDERR == 2

\* --------------------------------------------------------------- platform
\* A platform is what the preprocessor sees: whether __GLIBC__ is defined
\* and, if so, __GLIBC__ and __GLIBC_MINOR__.
Platforms ==
    { [glibc |-> FALSE, major |-> 0, minor |-> 0],
      [glibc |-> TRUE,  major |-> 2, minor |-> 28],
      [glibc |-> TRUE,  major |-> 2, minor |-> 29],
      [glibc |-> TRUE,  major |-> 3, minor |-> 0] }

\* __GLIBC_PREREQ(maj, min) as process.c uses it on lines 17 and 29.
GLIBC_PREREQ(p, maj, min) ==
    (p.major * 65536 + p.minor) >= (maj * 65536 + min)

\* Results the native posix_spawn_file_actions_addchdir_np can give
\* (0, ENOMEM).
NativeResults == {0, 12}

\* SPM_posix_spawn_file_actions_addchdir_np: the result and whether the
\* native call was made, given what the native call would return.
SPM_posix_spawn_file_actions_addchdir_np(p, native) ==
    IF p.glibc
    THEN IF GLIBC_PREREQ(p, 2, 29)
         THEN [ret |-> native, called |-> TRUE]
         ELSE [ret |-> ENOSYS, called |-> FALSE]
    ELSE [ret |-> ENOSYS, called |-> FALSE]

\* Whether the library is built with the native
\* posix_spawn_file_actions_addchdir_np: the call on line 18 is compiled
\* only for glibc 2.29 or newer.
NativeAvailable(p) == p.glibc /\ GLIBC_PREREQ(p, 2, 29)

\* A C bool as the int its caller reads: true is 1, false is 0.
BoolAsInt(b) == IF b THEN 1 ELSE 0

\* A probe that answers the wrong way round.
SupportedInverted(p) ==
    IF p.glibc
    THEN IF GLIBC_PREREQ(p, 2, 29) THEN FALSE ELSE TRUE
    ELSE TRUE

\* A probe that compares the minor version alone.
SupportedByMinorAlone(p) ==
    IF p.glibc
    THEN IF p.minor >= 29 THEN TRUE ELSE FALSE
    ELSE FALSE

\* SPM_posix_spawn_file_actions_addchdir_np_supported.
SPM_posix_spawn_file_actions_addchdir_np_supported(p) ==
    IF p.glibc
    THEN IF GLIBC_PREREQ(p, 2, 29) THEN TRUE ELSE FALSE
    ELSE FALSE

\* ------------------------------------------------------ descriptor tables
PipeEnds == {"inR", "inW", "outR", "outW", "errR", "errW"}
StdFiles == {"std0", "std1", "std2"}
\* The two ends of a pipe that another thread of the caller has open for a
\* launch of its own.
OtherEnds == {"othR", "othW"}
Closed == "closed"
FdNums == 0 .. 10
StdSlots == {STDIN, STDOUT, STDERR}

\* The pipe an end belongs to, and whether the end is the write end.
PipeOf(e) ==
    CASE e \in {"inR", "inW"} -> "in"
      [] e \in {"outR", "outW"} -> "out"
      [] e \in {"errR", "errW"} -> "err"
IsWriteEnd(e) == e \in {"inW", "outW", "errW"}

\* The usual numbering: three pipe() calls in a process whose descriptors
\* 0, 1 and 2 are open.
NormalFd ==
    [inR |-> 3, inW |-> 4, outR |-> 5, outW |-> 6, errR |-> 7, errW |-> 8]

\* Placements of at most MaxLowEnds pipe ends on the slots 0, 1, 2.
LowMoves ==
    UNION { { m \in [S -> StdSlots] : \A a, b \in S : a # b => m[a] # m[b] }
            : S \in { T \in SUBSET PipeEnds : Cardinality(T) <= MaxLowEnds } }

\* The numberings of the six pipe ends handed to a launch.
Layouts ==
    { [e \in PipeEnds |-> IF e \in DOMAIN m THEN m[e] ELSE NormalFd[e]]
      : m \in LowMoves }

StdFileOf(n) == CASE n = 0 -> "std0" [] n = 1 -> "std1" [] n = 2 -> "std2"

\* The caller's descriptor table for a numbering: the pipe ends where the
\* numbering puts them, the remaining standard slots on the caller's own
\* streams, everything else closed.
TableOf(l) ==
    [n \in FdNums |->
        IF \E e \in PipeEnds : l[e] = n
        THEN CHOOSE e \in PipeEnds : l[e] = n
        ELSE IF n \in StdSlots THEN StdFileOf(n) ELSE Closed]

\* dup2(oldfd, newfd) on table t: EBADF leaves t alone, oldfd = newfd is a
\* no-op, otherwise newfd is silently closed and rebound.
dup2(t, oldfd, newfd) ==
    IF oldfd \notin FdNums \/ t[oldfd] = Closed THEN t
    ELSE IF oldfd = newfd THEN t
    ELSE [t EXCEPT ![newfd] = t[oldfd]]

\* close(fd) on table t.
close(t, fd) ==
    IF fd \notin FdNums THEN t ELSE [t EXCEPT ![fd] = Closed]

\* Raw wait statuses: W_EXITCODE(code, 0) and a termination signal.
ExitedWith(code) == code * 256
KilledBy(sig) == sig
\* What the executed program can end with: exit 0 or SIGKILL (a child
\* ending with exit 1 comes from the _exit(EXIT_FAILURE) of lines 55, 92).
ProgramStatuses == {ExitedWith(0), KilledBy(9)}
\* Values an uninitialised int can hold.
UninitValues == {0, ExitedWith(1)}

VARIABLES
    platform,      \* the platform the library was built for
    lastCall,      \* the last probe / wrapper call and its result
    layout,        \* in_pipe, out_pipe, err_pipe: numbers of the six ends
    redirect_out, redirect_err,
    cwdExists,     \* whether chdir(cwd) can succeed
    cmdRuns,       \* whether execve(cmd, ...) can succeed
    pid,           \* *pid as the parent sees it
    parentPc, childPc,
    parentFds, childFds,
    parentCwd, childCwd,
    trace,         \* the system calls the child branch has made, in order
    pipeBuf,       \* contents of the three pipes
    stdSink,       \* what has been written to the caller's own streams
    written,       \* what the child process has written to streams 1 and 2
    childStatus,   \* raw wait status of the terminated child
    retval,        \* value SPM_fork_exec_chdir returned
    waitCount,     \* successful waits for the child
    probeResults,  \* every value the probe has returned so far
    otherPc        \* where the other thread's launch is, "absent" if none

vars == << platform, lastCall, layout, redirect_out, redirect_err, cwdExists,
           cmdRuns, pid, parentPc, childPc, parentFds, childFds, parentCwd,
           childCwd, trace, pipeBuf, stdSink, written, childStatus, retval,
           waitCount, probeResults, otherPc >>

inputVars == << platform, layout, redirect_out, redirect_err, cwdExists,
                cmdRuns >>
libVars == << lastCall, probeResults >>
otherVars == << otherPc >>
parentVars == << pid, parentPc, parentFds, parentCwd, retval, waitCount >>
ioVars == << pipeBuf, stdSink, written >>

in_pipe == << layout["inR"], layout["inW"] >>
out_pipe == << layout["outR"], layout["outW"] >>
err_pipe == << layout["errR"], layout["errW"] >>

NoValue == -1
ChildPid == 100

\* The arguments of a launch and everything outside the caller's
\* descriptor table, before the call.
LaunchInputs ==
    /\ platform \in Platforms
    /\ lastCall = [fn |-> "none"]
    /\ layout \in Layouts
    /\ redirect_out \in BOOLEAN
    /\ redirect_err \in BOOLEAN
    /\ cwdExists \in BOOLEAN
    /\ cmdRuns \in BOOLEAN
    /\ pid = 0
    /\ parentPc = "L42"
    /\ childPc = "none"
    /\ childFds = [n \in FdNums |-> Closed]
    /\ parentCwd = "callerdir"
    /\ childCwd = "none"
    /\ trace = << >>
    /\ pipeBuf = [in |-> << >>, out |-> << >>, err |-> << >>]
    /\ stdSink = [std0 |-> << >>, std1 |-> << >>, std2 |-> << >>]
    /\ written = << >>
    /\ childStatus = NoValue
    /\ retval = NoValue
    /\ waitCount = 0
    /\ probeResults = {}

Init ==
    /\ LaunchInputs
    /\ parentFds = TableOf(layout)
    /\ otherPc = "absent"


\* ------------------------------------------------------------------ writes
\* A write on descriptor fd of table t blocks while fd is the write end of
\* a full pipe.
CanWrite(t, fd) ==
    IsWriteEnd(t[fd]) => Len(pipeBuf[PipeOf(t[fd])]) < PipeCap

\* The pipes after item is written on descriptor fd of table t.
PipesAfterWrite(t, fd, item) ==
    IF IsWriteEnd(t[fd])
    THEN [pipeBuf EXCEPT ![PipeOf(t[fd])] = Append(@, item)]
    ELSE pipeBuf

\* The caller's own streams after item is written on descriptor fd of t.
\* A closed descriptor or a pipe's read end takes nothing (EBADF).
SinksAfterWrite(t, fd, item) ==
    IF t[fd] \in StdFiles
    THEN [stdSink EXCEPT ![t[fd]] = Append(@, item)]
    ELSE stdSink

\* What perror() writes: one item on the error stream.
PerrorItem == << STDERR, 0 >>

\* A probe that goes by the result of the last wrapper call, if there was
\* one.
ProbeByLastWrapperResult ==
    /\ lastCall' = [fn |-> "probe",
                    supported |->
                      IF lastCall.fn = "wrapper"
                      THEN lastCall.ret # ENOSYS
                      ELSE TRUE]
    /\ probeResults' = probeResults \cup {lastCall'.supported}
    /\ UNCHANGED << inputVars, otherVars, parentVars, ioVars, childPc,
                    childFds, childCwd, trace, childStatus >>

\* ------------------------------------------------------- the library calls
Probe ==
    /\ lastCall' = [fn |-> "probe",
                    supported |->
                      SPM_posix_spawn_file_actions_addchdir_np_supported(platform)]
    /\ probeResults' = probeResults \cup {lastCall'.supported}
    /\ UNCHANGED << inputVars, otherVars, parentVars, ioVars, childPc, childFds,
                    childCwd, trace, childStatus >>

Wrapper ==
    \E native \in NativeResults :
        LET r == SPM_posix_spawn_file_actions_addchdir_np(platform, native)
        IN  /\ lastCall' = [fn |-> "wrapper",
                            native |-> IF r.called THEN native ELSE NoValue,
                            ret |-> r.ret, called |-> r.called]
            /\ UNCHANGED << inputVars, otherVars, parentVars, ioVars, childPc,
                            childFds, childCwd, trace, childStatus,
                            probeResults >>

\* ------------------------------------------------------ SPM_fork_exec_chdir
\* Line 42, fork() succeeds: the child starts with a copy of the parent's
\* descriptor table and working directory.
Fork ==
    /\ parentPc = "L42"
    /\ pid' = ChildPid
    /\ parentPc' = "L50"
    /\ childPc' = "L54"
    /\ childFds' = parentFds
    /\ childCwd' = parentCwd
    /\ UNCHANGED << inputVars, otherVars, libVars, ioVars, parentFds, parentCwd, trace,
                    childStatus, retval, waitCount >>

\* Lines 42-46, fork() fails: perror, then _exit(EXIT_FAILURE) in the
\* calling process.
ForkFail ==
    /\ parentPc = "L42"
    /\ pid' = -1
    /\ CanWrite(parentFds, STDERR)
    /\ pipeBuf' = PipesAfterWrite(parentFds, STDERR, PerrorItem)
    /\ stdSink' = SinksAfterWrite(parentFds, STDERR, PerrorItem)
    /\ parentPc' = "exited"
    /\ UNCHANGED << inputVars, otherVars, libVars, written, parentFds, parentCwd,
                    childPc, childFds, childCwd, trace, childStatus, retval,
                    waitCount >>

\* Lines 50-51, waitpid() succeeds: it returns once the child has
\* terminated and stores its status.
ParentWait ==
    /\ parentPc = "L50"
    /\ childPc = "zombie"
    /\ retval' = childStatus
    /\ waitCount' = waitCount + 1
    /\ childPc' = "reaped"
    /\ parentPc' = "returned"
    /\ UNCHANGED << inputVars, otherVars, libVars, ioVars, pid, parentFds, parentCwd,
                    childFds, childCwd, trace, childStatus >>

\* Lines 49-51, waitpid() fails (EINTR, ECHILD): its result is not looked
\* at and status, never written, is returned.
ParentWaitFail ==
    /\ parentPc = "L50"
    /\ retval' \in UninitValues
    /\ parentPc' = "returned"
    /\ UNCHANGED << inputVars, otherVars, libVars, ioVars, pid, parentFds, parentCwd,
                    childPc, childFds, childCwd, trace, childStatus,
                    waitCount >>

\* A child branch that works on the caller's descriptor table, as after
\* vfork.
ChildCallOnSharedTable(from, line, call, t, to) ==
    /\ childPc = from
    /\ trace' = Append(trace, [line |-> line, call |-> call])
    /\ childFds' = t
    /\ parentFds' = t
    /\ childPc' = to
    /\ UNCHANGED << inputVars, otherVars, libVars, ioVars, pid, parentPc, parentCwd,
                    retval, waitCount, childCwd, childStatus >>

\* One system call of the child branch: at position from, the call is
\* logged, the table becomes t and the position becomes to.
ChildCall(from, line, call, t, to) ==
    /\ childPc = from
    /\ trace' = Append(trace, [line |-> line, call |-> call])
    /\ childFds' = t
    /\ childPc' = to
    /\ UNCHANGED << inputVars, otherVars, libVars, parentVars, ioVars, childCwd,
                    childStatus >>

AllClosed == [n \in FdNums |-> Closed]

\* Line 54, chdir(cwd) succeeds.
ChildChdir ==
    /\ childPc = "L54"
    /\ cwdExists
    /\ trace' = Append(trace, [line |-> 54, call |-> "chdir"])
    /\ childCwd' = "cwd"
    /\ childPc' = "L61"
    /\ UNCHANGED << inputVars, otherVars, libVars, parentVars, ioVars, childFds,
                    childStatus >>

\* Lines 54-55, chdir(cwd) fails: _exit(EXIT_FAILURE).
ChildChdirFail ==
    /\ childPc = "L54"
    /\ ~cwdExists
    /\ trace' = Append(trace, [line |-> 54, call |-> "chdir failed"])
    /\ childStatus' = ExitedWith(EXIT_FAILURE)
    /\ childFds' = AllClosed
    /\ childPc' = "zombie"
    /\ UNCHANGED << inputVars, otherVars, libVars, parentVars, ioVars, childCwd >>

\* Line 61.
ChildDupIn ==
    ChildCall("L61", 61, "dup2", dup2(childFds, in_pipe[1], STDIN), "L63")
\* Line 63.
ChildCloseIn0 ==
    ChildCall("L63", 63, "close", close(childFds, in_pipe[1]), "L64")
\* Lines 64 and 66: the last close of the input pipe, then the branch on
\* redirect_out.
ChildCloseIn1 ==
    ChildCall("L64", 64, "close", close(childFds, in_pipe[2]),
              IF redirect_out THEN "L68" ELSE "L84")
\* Line 68.
ChildDupOut ==
    ChildCall("L68", 68, "dup2", dup2(childFds, out_pipe[2], STDOUT), "L70")
\* Line 70.
ChildCloseOut0 ==
    ChildCall("L70", 70, "close", close(childFds, out_pipe[1]), "L71")
\* A child branch that goes to execve right after the output pipe, leaving
\* stderr as it was.
ChildCloseOut1ThenExec ==
    ChildCall("L71", 71, "close", close(childFds, out_pipe[2]), "L88")

\* Lines 71 and 73: the last close of the output pipe, then the branch on
\* redirect_err.
ChildCloseOut1 ==
    ChildCall("L71", 71, "close", close(childFds, out_pipe[2]),
              IF redirect_err THEN "L75" ELSE "L78")
\* Line 75.
ChildDupMerge ==
    ChildCall("L75", 75, "dup2", dup2(childFds, STDOUT, STDERR), "L88")
\* Line 78.
ChildDupErr ==
    ChildCall("L78", 78, "dup2", dup2(childFds, err_pipe[2], STDERR), "L80")
\* Line 80.
ChildCloseErr0 ==
    ChildCall("L80", 80, "close", close(childFds, err_pipe[1]), "L81")
\* A child branch that forgets the last close of the error pipe.
ChildCloseErr1Forgotten ==
    ChildCall("L81", 81, "close", childFds, "L88")

\* Line 81.
ChildCloseErr1 ==
    ChildCall("L81", 81, "close", close(childFds, err_pipe[2]), "L88")
\* Line 84.
ChildDup11 ==
    ChildCall("L84", 84, "dup2", dup2(childFds, STDOUT, STDOUT), "L85")
\* Line 85.
ChildDup22 ==
    ChildCall("L85", 85, "dup2", dup2(childFds, STDERR, STDERR), "L88")

\* Line 88, execve() succeeds: the program runs on the child's table.
ChildExecve ==
    /\ cmdRuns
    /\ ChildCall("L88", 88, "execve", childFds, "running")

\* A child branch without the _exit on line 92: after perror the child
\* leaves the function and runs on in the caller's code.
ChildExecveFailThenReturn ==
    /\ childPc = "L88"
    /\ ~cmdRuns
    /\ CanWrite(childFds, STDERR)
    /\ trace' = Append(trace, [line |-> 88, call |-> "execve failed"])
    /\ written' = Append(written, PerrorItem)
    /\ pipeBuf' = PipesAfterWrite(childFds, STDERR, PerrorItem)
    /\ stdSink' = SinksAfterWrite(childFds, STDERR, PerrorItem)
    /\ childPc' = "returned"
    /\ UNCHANGED << inputVars, otherVars, libVars, parentVars, childCwd,
                    childFds, childStatus >>

\* Lines 88-92, execve() returns: perror(cmd), _exit(EXIT_FAILURE).
ChildExecveFail ==
    /\ childPc = "L88"
    /\ ~cmdRuns
    /\ CanWrite(childFds, STDERR)
    /\ trace' = Append(trace, [line |-> 88, call |-> "execve failed"])
    /\ written' = Append(written, PerrorItem)
    /\ pipeBuf' = PipesAfterWrite(childFds, STDERR, PerrorItem)
    /\ stdSink' = SinksAfterWrite(childFds, STDERR, PerrorItem)
    /\ childStatus' = ExitedWith(EXIT_FAILURE)
    /\ childFds' = AllClosed
    /\ childPc' = "zombie"
    /\ UNCHANGED << inputVars, otherVars, libVars, parentVars, childCwd >>

\* The executed program writes its next item on its output or error
\* stream; the write blocks while that stream is a full pipe.
ProgWriteOn(s) ==
    LET item == << s, Len(written) + 1 >>
    IN  /\ childPc = "running"
        /\ Len(written) < MaxWrites
        /\ CanWrite(childFds, s)
        /\ written' = Append(written, item)
        /\ pipeBuf' = PipesAfterWrite(childFds, s, item)
        /\ stdSink' = SinksAfterWrite(childFds, s, item)
        /\ UNCHANGED << inputVars, otherVars, libVars, parentVars, childPc,
                        childFds, childCwd, trace, childStatus >>

ProgWrite == \E s \in {STDOUT, STDERR} : ProgWriteOn(s)

\* The executed program terminates; its descriptors are closed.
ProgExit ==
    \E st \in ProgramStatuses :
        /\ childPc = "running"
        /\ childStatus' = st
        /\ childFds' = AllClosed
        /\ childPc' = "zombie"
        /\ UNCHANGED << inputVars, otherVars, libVars, parentVars, ioVars, childCwd,
                        trace >>

Next ==
    \/ Probe \/ Wrapper
    \/ Fork \/ ForkFail \/ ParentWait \/ ParentWaitFail
    \/ ChildChdir \/ ChildChdirFail
    \/ ChildDupIn \/ ChildCloseIn0 \/ ChildCloseIn1
    \/ ChildDupOut \/ ChildCloseOut0 \/ ChildCloseOut1
    \/ ChildDupMerge
    \/ ChildDupErr \/ ChildCloseErr0 \/ ChildCloseErr1
    \/ ChildDup11 \/ ChildDup22
    \/ ChildExecve \/ ChildExecveFail
    \/ ProgWrite \/ ProgExit

Spec == Init /\ [][Next]_vars

TypeOK ==
    /\ parentPc \in {"L42", "L50", "returned", "exited"}
    /\ \A n \in FdNums :
          parentFds[n] \in PipeEnds \cup StdFiles \cup OtherEnds \cup {Closed}
    /\ \A n \in FdNums :
          childFds[n] \in PipeEnds \cup StdFiles \cup OtherEnds \cup {Closed}
    /\ probeResults \subseteq BOOLEAN
    /\ Len(written) <= MaxWrites
    /\ \A p \in {"in", "out", "err"} : Len(pipeBuf[p]) <= PipeCap


\* ------------------------------------------------------------- properties
ChildExists == childPc # "none"
ChildTerminated == childPc \in {"zombie", "reaped"}
\* The child is at execve or is the executed program: its table is the one
\* execve was called with.
AtExec == childPc \in {"L88", "running"}
Calls == { trace[i].call : i \in 1 .. Len(trace) }
Lines == { trace[i].line : i \in 1 .. Len(trace) }
Stream(s) == LET Is(item) == item[1] = s IN SelectSeq(written, Is)

\* C1: when fork fails the call returns to its caller, which keeps
\* running: no child exists and none of the six pipe descriptors has been
\* duplicated or closed.
ForkFailureReturnsToCaller ==
    pid = -1 =>
        /\ parentPc = "returned"
        /\ retval # NoValue
        /\ ~ChildExists
        /\ parentFds = TableOf(layout)

\* C2: when fork succeeds, the parent returns only after the child has
\* terminated, the child has been waited for exactly once, and the value
\* returned is the child's raw wait status.
ParentReturnsChildStatus ==
    (pid = ChildPid /\ parentPc = "returned") =>
        /\ ChildTerminated
        /\ waitCount = 1
        /\ retval = childStatus

\* C3: when the child's chdir fails the child terminates at once with the
\* failure status, makes no dup2, close or execve call, the executable
\* never runs, and the parent returns a status other than success.
ChdirFailureEndsChild ==
    (ChildExists /\ ~cwdExists /\ childPc # "L54") =>
        /\ ChildTerminated
        /\ childStatus = ExitedWith(EXIT_FAILURE)
        /\ Calls = {"chdir failed"}
        /\ written = << >>
        /\ (parentPc = "returned" => retval # ExitedWith(0))

\* The part of C3 that concerns the child alone.
ChdirFailureChildPart ==
    (ChildExists /\ ~cwdExists /\ childPc # "L54") =>
        /\ ChildTerminated
        /\ childStatus = ExitedWith(EXIT_FAILURE)
        /\ Calls = {"chdir failed"}
        /\ written = << >>

StdinLines == {61, 63, 64}
OutErrLines == {68, 70, 71, 75, 78, 80, 81, 84, 85}
\* The dup2 and close calls the rewiring of a launch consists of.
RewiringLines ==
    StdinLines \cup
    (IF redirect_out
     THEN {68, 70, 71} \cup (IF redirect_err THEN {75} ELSE {78, 80, 81})
     ELSE {84, 85})

\* C4: in the child branch the chdir has succeeded before the first dup2
\* or close, the rewiring of stdin precedes that of stdout and stderr, and
\* every dup2 and close of the rewiring is done before execve is called,
\* whatever the flags are.
ChildStepsInOrder ==
    \A i \in 1 .. Len(trace) :
        /\ trace[i].call \in {"dup2", "close"} =>
              \E j \in 1 .. (i - 1) : trace[j].call = "chdir"
        /\ trace[i].line \in OutErrLines =>
              /\ \A l \in StdinLines : \E j \in 1 .. (i - 1) : trace[j].line = l
              /\ \A j \in (i + 1) .. Len(trace) : trace[j].line \notin StdinLines
        /\ trace[i].call \in {"execve", "execve failed"} =>
              /\ i = Len(trace)
              /\ { trace[j].line : j \in 2 .. (i - 1) } = RewiringLines
              /\ \A j \in 2 .. (i - 1) : trace[j].call \in {"dup2", "close"}

\* C4's case: the program runs after a launch with separate output and
\* error pipes, the longest child branch.
WitnessChildStepsInOrder ==
    /\ childPc = "running"
    /\ redirect_out /\ ~redirect_err
    /\ Len(trace) = 11

\* C5: the parent's descriptor table, with all six pipe ends open in it,
\* and the parent's working directory stay as they were on entry.
ParentStateUnchanged ==
    /\ parentFds = TableOf(layout)
    /\ \A e \in PipeEnds : parentFds[layout[e]] = e
    /\ parentCwd = "callerdir"

\* C5's case: the parent has returned from a launch whose child changed
\* its own directory and rewired its own table.
WitnessParentStateUnchanged ==
    /\ parentPc = "returned"
    /\ waitCount = 1
    /\ childCwd = "cwd"
    /\ 81 \in Lines

\* C6: with redirect_out and the merge flag, descriptors 1 and 2 of the
\* child at execve are the output pipe's write end; everything the child
\* writes is on the output pipe in write order and nothing is on the
\* error pipe.
MergedStreamsReachOutputPipe ==
    (redirect_out /\ redirect_err) =>
        /\ AtExec => (childFds[STDOUT] = "outW" /\ childFds[STDERR] = "outW")
        /\ ChildExists => (pipeBuf["out"] = written /\ pipeBuf["err"] = << >>)

\* C7: with redirect_out and no merge, descriptor 1 of the child at execve
\* is the output pipe's write end and descriptor 2 the error pipe's write
\* end; each pipe holds exactly what was written to its stream.
SeparateStreamsReachOwnPipes ==
    (redirect_out /\ ~redirect_err) =>
        /\ AtExec => (childFds[STDOUT] = "outW" /\ childFds[STDERR] = "errW")
        /\ ChildExists => /\ pipeBuf["out"] = Stream(STDOUT)
                          /\ pipeBuf["err"] = Stream(STDERR)

\* C8: without redirect_out, descriptors 1 and 2 of the child at execve are
\* the open files the parent's descriptors 1 and 2 were at the fork, and
\* nothing the child writes is on the output or the error pipe.
UnredirectedStreamsInherited ==
    ~redirect_out =>
        /\ AtExec => /\ childFds[STDOUT] = parentFds[STDOUT]
                     /\ childFds[STDERR] = parentFds[STDERR]
        /\ ChildExists => (pipeBuf["out"] = << >> /\ pipeBuf["err"] = << >>)

\* C9: after the rewiring of stdin, descriptor 0 of the child is the input
\* pipe's read end and no other descriptor of the child is an end of the
\* input pipe, however the two ends are numbered.
StdinIsInputPipe ==
    childPc \in {"L68", "L84"} =>
        /\ childFds[STDIN] = "inR"
        /\ \A n \in FdNums \ {STDIN} : childFds[n] \notin {"inR", "inW"}

\* C10: the wrapper agrees with the probe on every platform: unsupported
\* means ENOSYS, never success, and no native call; supported means the
\* native call is made and its result returned.
WrapperAgreesWithProbe ==
    lastCall.fn = "wrapper" =>
        IF SPM_posix_spawn_file_actions_addchdir_np_supported(platform)
        THEN lastCall.called /\ lastCall.ret = lastCall.native
        ELSE ~lastCall.called /\ lastCall.ret = ENOSYS /\ lastCall.ret # 0

\* C10's case: the wrapper has been called on a glibc older than 2.29.
WitnessWrapperAgreesWithProbe ==
    /\ lastCall.fn = "wrapper"
    /\ platform.glibc
    /\ ~SPM_posix_spawn_file_actions_addchdir_np_supported(platform)
    /\ lastCall.ret = ENOSYS

\* The descriptors of all six pipe ends are numbered 3 or higher.
HighPipes == \A e \in PipeEnds : layout[e] >= 3

launchVars ==
    << inputVars, otherVars, parentVars, ioVars, childPc, childFds,
       childCwd, trace, childStatus >>

\* C12: however the probe calls are interleaved with launches and wrapper
\* calls, they all return the same boolean, and a probe call changes
\* nothing else: no process appears, no descriptor, pipe or directory
\* changes.
ProbeIsPure ==
    /\ [](Cardinality(probeResults) <= 1)
    /\ [][ (probeResults' # probeResults
            \/ (lastCall'.fn = "probe" /\ lastCall' # lastCall))
           => UNCHANGED launchVars ]_vars

\* C12's case: the probe has answered while the launched program runs and
\* has written.
WitnessProbeIsPure ==
    /\ lastCall.fn = "probe"
    /\ probeResults = {lastCall.supported}
    /\ childPc = "running"
    /\ Len(written) > 0

\* The positions of the child branch: its system calls on lines 54 to 88,
\* the executed program, and the terminated child before and after the
\* parent's wait.
ChildPositions ==
    {"none", "L54", "L61", "L63", "L64", "L68", "L70", "L71", "L75", "L78",
     "L80", "L81", "L84", "L85", "L88", "running", "zombie", "reaped"}
LastCall == trace[Len(trace)].call

\* C13: the child is always inside the child branch, in the executed
\* program or terminated: it never returns into the caller's code or
\* reaches the parent's wait; it has terminated either as the executed
\* program or by _exit(EXIT_FAILURE) right after a failed chdir or execve.
ChildNeverReturns ==
    /\ childPc \in ChildPositions
    /\ childPc = "running" => LastCall = "execve"
    /\ ChildTerminated =>
          \/ LastCall = "execve"
          \/ /\ LastCall \in {"chdir failed", "execve failed"}
             /\ childStatus = ExitedWith(EXIT_FAILURE)
    /\ waitCount > 0 => (parentPc = "returned" /\ childPc = "reaped")

\* C13's case: execve has returned in the child and the child has
\* terminated with the failure status.
WitnessChildNeverReturns ==
    /\ childPc = "zombie"
    /\ LastCall = "execve failed"
    /\ childStatus = ExitedWith(EXIT_FAILURE)

\* The pipe ends the child holds on descriptors other than 0, 1 and 2.
HeldAboveStd == { childFds[n] : n \in FdNums \ StdSlots } \cap PipeEnds

\* C14: at execve, for every combination of the flags and with all pipe
\* descriptors numbered 3 or higher, the child holds no end of the three
\* pipes on a descriptor other than 0, 1 and 2.
NoPipeEndLeaked ==
    (HighPipes /\ AtExec) => HeldAboveStd = {}

\* C14 as amended: at execve, with all pipe descriptors numbered 3 or
\* higher, the child holds outside 0, 1 and 2 no end of the input pipe,
\* no end of the output pipe when redirect_out is set and no end of the
\* error pipe when redirect_out is set and the merge flag is not; both
\* ends of the error pipe stay open when the merge flag is set, and both
\* ends of the output and of the error pipe when redirect_out is not set.
PipeEndsLeftOpen ==
    (HighPipes /\ AtExec) =>
        HeldAboveStd =
            IF redirect_out
            THEN (IF redirect_err THEN {"errR", "errW"} ELSE {})
            ELSE {"outR", "outW", "errR", "errW"}

\* C14's case: the executed program runs after a merged launch and holds
\* the two ends of the error pipe, and nothing of the other pipes, above
\* descriptor 2.
WitnessPipeEndsLeftOpen ==
    /\ HighPipes
    /\ childPc = "running"
    /\ redirect_out /\ redirect_err
    /\ HeldAboveStd = {"errR", "errW"}
    /\ childFds[STDIN] = "inR"

\* ------------------------------------------------- a launch under fairness
\* One launch with the usual descriptor numbering, whose program writes
\* MaxWrites items on its output stream and then exits.  Nobody reads the
\* pipes before the call returns.
LaunchInit ==
    /\ Init
    /\ HighPipes
    /\ platform = [glibc |-> TRUE, major |-> 2, minor |-> 28]

\* The executed program exits once it has written everything.
ProgExitWhenDone ==
    /\ Len(written) = MaxWrites
    /\ ProgExit

\* The next step of the child process, whatever it is.
ChildProgress ==
    \/ ChildChdir \/ ChildChdirFail
    \/ ChildDupIn \/ ChildCloseIn0 \/ ChildCloseIn1
    \/ ChildDupOut \/ ChildCloseOut0 \/ ChildCloseOut1
    \/ ChildDupMerge
    \/ ChildDupErr \/ ChildCloseErr0 \/ ChildCloseErr1
    \/ ChildDup11 \/ ChildDup22
    \/ ChildExecve \/ ChildExecveFail
    \/ ProgWriteOn(STDOUT) \/ ProgExitWhenDone

LaunchNext ==
    \/ Fork \/ ForkFail \/ ParentWait \/ ParentWaitFail
    \/ ChildProgress

\* The scheduler runs a process that can take a step: the child's next
\* step and the parent's waitpid, once the child has terminated, are taken
\* eventually.  A failing waitpid is possible but never owed.
FairLaunchSpec ==
    /\ LaunchInit
    /\ [][LaunchNext]_vars
    /\ WF_vars(ChildProgress)
    /\ WF_vars(ParentWait)

\* C15: when fork has succeeded with redirect_out and the program that is
\* executed writes its items on its output stream and exits, the call
\* eventually returns, whatever the pipe's capacity is.
LaunchEventuallyReturns ==
    (pid = ChildPid /\ redirect_out /\ cwdExists /\ cmdRuns)
        ~> (parentPc = "returned")

\* The same as a state predicate: while the parent waits, the child can
\* take a step or has terminated.
WaitingParentCanProgress ==
    (parentPc = "L50" /\ redirect_out /\ cwdExists /\ cmdRuns) =>
        ENABLED (ChildProgress \/ ParentWait)

\* --------------------------------------- two launches of two threads
\* Another thread of the caller makes a launch of its own with a pipe of
\* its own, numbered 9 and 10; the table is the one of the whole process.
OtherFd == [othR |-> 9, othW |-> 10]
TableWithOther(l) ==
    [n \in FdNums |->
        IF n = OtherFd["othR"] THEN "othR"
        ELSE IF n = OtherFd["othW"] THEN "othW"
        ELSE TableOf(l)[n]]

ConcurrentInit ==
    /\ LaunchInputs
    /\ HighPipes
    /\ platform = [glibc |-> TRUE, major |-> 2, minor |-> 28]
    /\ parentFds = TableWithOther(layout)
    /\ otherPc = "piped"

\* The other thread's launch is over: its child has exited and its call
\* has returned.
OtherLaunchDone ==
    /\ otherPc = "piped"
    /\ otherPc' = "exited"
    /\ UNCHANGED << inputVars, libVars, parentVars, ioVars, childPc,
                    childFds, childCwd, trace, childStatus >>

\* The other thread closes the write end of its pipe, as a caller does
\* once its launch is over, to read the pipe to its end.
OtherCallerCloses ==
    /\ otherPc = "exited"
    /\ otherPc' = "closed"
    /\ parentFds' = close(parentFds, OtherFd["othW"])
    /\ UNCHANGED << inputVars, libVars, ioVars, pid, parentPc, parentCwd,
                    retval, waitCount, childPc, childFds, childCwd, trace,
                    childStatus >>

ConcurrentNext ==
    \/ Fork \/ ForkFail \/ ParentWait \/ ParentWaitFail
    \/ ChildChdir \/ ChildChdirFail
    \/ ChildDupIn \/ ChildCloseIn0 \/ ChildCloseIn1
    \/ ChildDupOut \/ ChildCloseOut0 \/ ChildCloseOut1
    \/ ChildDupMerge
    \/ ChildDupErr \/ ChildCloseErr0 \/ ChildCloseErr1
    \/ ChildDup11 \/ ChildDup22
    \/ ChildExecve \/ ChildExecveFail
    \/ ProgWrite \/ ProgExit
    \/ OtherLaunchDone \/ OtherCallerCloses

ConcurrentSpec == ConcurrentInit /\ [][ConcurrentNext]_vars

\* A reader of the other thread's pipe sees its end: no process holds the
\* write end any more (the other launch's child has exited).
EofOnOther ==
    \A n \in FdNums : parentFds[n] # "othW" /\ childFds[n] # "othW"

\* C16: the launches of two threads with pipes of their own do not
\* interfere: the child of one holds at execve no end of the other's pipe,
\* and once the other launch's child has exited and its caller has closed
\* its write end, the reader of the other's pipe sees the end of the
\* stream, whether or not this launch's child still runs.
ConcurrentLaunchesIsolated ==
    /\ AtExec => \A n \in FdNums : childFds[n] \notin OtherEnds
    /\ (otherPc = "closed"
        /\ childPc \in {"none", "running", "zombie", "reaped"})
          => EofOnOther

====
